---------------------------- MODULE Spec2Model ----------------------------
(***************************************************************************)
(* A model of the Product-Key Memory layer of PKM-layer.ipynb              *)
(* (class HashingMemory).  Tensors are functions over 0..n-1 (a matrix is  *)
(* a function of rows), so that the index arithmetic of the code           *)
(* (i * n_keys + j, // and %) is kept as written.  Real numbers are fixed  *)
(* point: an integer n stands for n / Unit, a softmax weight n for         *)
(* n / WeightUnit, and every operation rounds to the nearest.              *)
(***************************************************************************)
EXTENDS Integers, Sequences, FiniteSets, TLC

VARIABLES phase, cfg, keys, values, proj, bn, training, call

vars == <<phase, cfg, keys, values, proj, bn, training, call>>

(***************************************************************************)
(* Bounds of the model.                                                    *)
(***************************************************************************)
\* largest n_keys given to the selector on its own
MaxNKeys == 3

(***************************************************************************)
(* Helpers on tensors and fixed-point numbers.                             *)
(***************************************************************************)
\* the integer that stands for 1.0 in a tensor
Unit == 1000

\* the integer that stands for 1.0 in a softmax weight
WeightUnit == 10000

Range0(n) == 0 .. (n - 1)

Seq0(s) == [i \in Range0(Len(s)) |-> s[i + 1]]

Size(t) == Cardinality(DOMAIN t)

RECURSIVE SumTo(_, _)
SumTo(f, n) == IF n = 0 THEN 0 ELSE f[n - 1] + SumTo(f, n - 1)

RangeOf(f) == {f[x] : x \in DOMAIN f}

\* the i-th largest entry of v (i = 1 is the maximum), counting repetitions
IthLargest(v, i) ==
    CHOOSE t \in RangeOf(v) :
        /\ Cardinality({x \in DOMAIN v : v[x] > t}) < i
        /\ Cardinality({x \in DOMAIN v : v[x] >= t}) >= i

\* a / b rounded to the nearest integer, b > 0
RoundDiv(a, b) == (a + b \div 2) \div b

RECURSIVE Newton(_, _)
Newton(v, x) ==
    IF (x + v \div x) \div 2 >= x THEN x ELSE Newton(v, (x + v \div x) \div 2)

\* the integer part of the square root of v
ISqrt(v) == IF v = 0 THEN 0 ELSE Newton(v, v)

\* the square root of v rounded to the nearest integer
SqrtRound(v) == (ISqrt(4 * v) + 1) \div 2

RECURSIVE Product(_)
Product(shape) ==
    IF Len(shape) = 0 THEN 1 ELSE Head(shape) * Product(Tail(shape))

(***************************************************************************)
(* _get_indices: the product-key selector of one head.                     *)
(***************************************************************************)
\* F.linear(q, w, bias=None) for one row q: the inner product of q with
\* each row of w
Linear(q, w) ==
    [n \in DOMAIN w |->
        RoundDiv(SumTo([d \in DOMAIN q |-> q[d] * w[n][d]], Size(q)), Unit)]

RECURSIVE TopKSeqs(_, _, _)
TopKSeqs(v, rem, k) ==
    IF k = 0 THEN {<<>>}
    ELSE UNION {{<<i>> \o s : s \in TopKSeqs(v, rem \ {i}, k - 1)} :
                  i \in {j \in rem : \A l \in rem : v[j] >= v[l]}}

\* a bug of topk: the first k entries, sorted, instead of the k largest
TopKTruncated(v, k) == {Seq0(s) : s \in TopKSeqs(v, Range0(k), k)}

\* torch.topk(v, k) along the last dimension (largest, sorted): the index
\* vectors it may return, one for each order of equal values.  Requires
\* k <= len(v).
TopK(v, k) == {Seq0(s) : s \in TopKSeqs(v, DOMAIN v, k)}

\* torch.topk is one kernel: it is a function of the row it is given, and
\* which order it gives to equal values is not specified.  The functions it
\* may be on the rows of `inputs`.
RECURSIVE TopKKernels(_, _)
TopKKernels(inputs, k) ==
    UNION { IF rows = {} THEN {[v \in {} |-> v]}
            ELSE UNION { {(v :> o) @@ f : f \in TopKKernels(rows \ {v}, k),
                                          o \in TopK(v, k)} :
                           v \in {CHOOSE w \in rows : TRUE} } :
              rows \in {inputs} }

\* the values torch.topk returns with the indices idx
TopKValues(v, idx) == [i \in DOMAIN idx |-> v[idx[i]]]

\* half = self.k_dim // 2
Half(k_dim) == k_dim \div 2

\* query[:, :half] and query[:, half:]
FirstHalf(q, half) == [d \in Range0(half) |-> q[d]]

SecondHalf(q, half) == [d \in Range0(Size(q) - half) |-> q[half + d]]

\* a bug of the broadcast: the second summand follows the first axis
AllScoresDiagonal(sc1, sc2, knn) ==
    [p \in Range0(knn * knn) |-> sc1[p \div knn] + sc2[p \div knn]]

\* scores1.view(bs, knn, 1).expand(bs, knn, knn)
\*   + scores2.view(bs, 1, knn).expand(bs, knn, knn), viewed as (bs, knn**2)
AllScores(sc1, sc2, knn) ==
    [p \in Range0(knn * knn) |-> sc1[p \div knn] + sc2[p % knn]]

\* a bug of the encoding: the stride is knn instead of n_keys
AllIndicesStrideKnn(i1, i2, knn, n_keys) ==
    [p \in Range0(knn * knn) |-> i1[p \div knn] * knn + i2[p % knn]]

\* indices1.view(bs, knn, 1).expand(bs, knn, knn) * n_keys
\*   + indices2.view(bs, 1, knn).expand(bs, knn, knn), viewed as (bs, knn**2)
AllIndices(i1, i2, knn, n_keys) ==
    [p \in Range0(knn * knn) |-> i1[p \div knn] * n_keys + i2[p % knn]]

\* a bug of gather: the leading entries, whatever best_indices says
GatherLeading(t, index) == [i \in DOMAIN index |-> t[i]]

\* t.gather(1, index) for one row
Gather(t, index) == [i \in DOMAIN index |-> t[index[i]]]

\* the rows the three calls of topk in _get_indices are given for one row
\* of the query: scores1, scores2 and all_scores (the values topk returns
\* are the same for every order of equal values)
TopKInputs(q, subkeys, knn, k_dim) ==
    UNION { {s1, s2,
             AllScores(TopKValues(s1, CHOOSE o \in TopK(s1, knn) : TRUE),
                       TopKValues(s2, CHOOSE o \in TopK(s2, knn) : TRUE),
                       knn)} :
              s1 \in {Linear(FirstHalf(q, Half(k_dim)), subkeys[0])},
              s2 \in {Linear(SecondHalf(q, Half(k_dim)), subkeys[1])} }

\* what _get_indices returns for one row of the query when torch.topk is
\* the function topk: scores and indices, with the values of its locals
\* (full1, full2: scores1 and scores2 before topk; indices1, indices2: the
\* sub-keys topk kept, as sets).  Each local is bound once, in the order
\* the code assigns it.
GetIndicesRow(q, subkeys, knn, k_dim, topk) ==
    CHOOSE result \in UNION { UNION { UNION {
        { [full1 |-> s1, full2 |-> s2,
           indices1 |-> {i1[x] : x \in DOMAIN i1},
           indices2 |-> {i2[x] : x \in DOMAIN i2},
           scores |-> TopKValues(all_scores, best),
           indices |-> Gather(all_indices, best)] :
             best \in {topk[all_scores]} }
        : all_scores \in {AllScores(TopKValues(s1, i1), TopKValues(s2, i2), knn)},
          all_indices \in {AllIndices(i1, i2, knn, n_keys)} }
        : i1 \in {topk[s1]}, i2 \in {topk[s2]} }
        : n_keys \in {Size(subkeys[0])},
          s1 \in {Linear(FirstHalf(q, Half(k_dim)), subkeys[0])},
          s2 \in {Linear(SecondHalf(q, Half(k_dim)), subkeys[1])} } : TRUE

\* topk raises when asked for more entries than the dimension holds
GetIndicesRaises(subkeys, knn) == knn > Size(subkeys[0])

\* _get_indices on a batch (bs, k_dim)
GetIndicesBatch(query, subkeys, knn, k_dim, topk) ==
    [b \in DOMAIN query |-> GetIndicesRow(query[b], subkeys, knn, k_dim, topk)]

\* a bug of the view: the rows are read as (heads, bs) instead of (bs, heads)
HeadQueriesTransposed(query, heads, i) ==
    [b \in Range0(Size(query) \div heads) |->
        query[i * (Size(query) \div heads) + b]]

\* query.view(-1, heads, k_dim)[:, i]: row b of head i is row b * heads + i
HeadQueries(query, heads, i) ==
    [b \in Range0(Size(query) \div heads) |-> query[b * heads + i]]

\* the rows topk is given in one call of get_indices
GetIndicesTopKInputs(query, allkeys, heads, knn, k_dim) ==
    UNION { UNION { UNION { TopKInputs(head_query[b], allkeys[i], knn, k_dim) :
                              b \in DOMAIN head_query } :
                      head_query \in {HeadQueries(query, heads, i)} } :
              i \in Range0(heads) }

\* get_indices when torch.topk is the function topk: _get_indices per head
\* on that head's rows and sub-keys, the results concatenated to
\* (bs, heads, knn) and viewed as (bs * heads, knn)
GetIndices(query, allkeys, heads, knn, k_dim, topk) ==
    CHOOSE result \in
        { [r \in DOMAIN query |-> outputs[r % heads][r \div heads]] :
            outputs \in {[i \in Range0(heads) |->
                GetIndicesBatch(HeadQueries(query, heads, i), allkeys[i],
                                knn, k_dim, topk)]} } : TRUE

NoCall == [op |-> "none"]

(***************************************************************************)
(* Construction of the module.                                             *)
(***************************************************************************)
\* np.random.RandomState(seed): the first draws of random_sample() of
\* numpy's generator (MT19937) for the seeds initialize_keys uses, in
\* millionths
RandomState(seed) ==
    CASE seed = 0 -> <<548814, 715189, 602763, 544883>>
      [] seed = 1 -> <<417022, 720324, 114, 302333>>
      [] seed = 2 -> <<435995, 25926, 549662, 435322>>
      [] seed = 3 -> <<550798, 708148, 290905, 510828>>

\* low + (high - low) * u for a draw u in [0, 1) given in millionths
Uniform(low, high, u) == low + RoundDiv((high - low) * u, 1000000)

\* 1 / math.sqrt(dim)
Bound(dim) == RoundDiv(Unit * Unit, SqrtRound(dim * Unit * Unit))

\* get_uniform_keys(n_keys, dim, seed): rng.uniform(-bound, bound,
\* (n_keys, dim)), the draws taken row by row
GetUniformKeys(n_keys, dim, seed) ==
    [n \in Range0(n_keys) |-> [d \in Range0(dim) |->
        Uniform(-Bound(dim), Bound(dim), RandomState(seed)[n * dim + d + 1])]]

\* initialize_keys: keys of shape (heads, 2, n_keys, k_dim // 2), the block
\* of head i and half j drawn with seed 2 * i + j
InitializeKeys(heads, n_keys, k_dim) ==
    [i \in Range0(heads) |->
        [j \in Range0(2) |-> GetUniformKeys(n_keys, Half(k_dim), 2 * i + j)]]

\* torch's global generator is not seeded: what it draws is not determined
\* by the program.  Two of the streams it can give: uniform draws in [0, 1),
\* in millionths, and standard normal draws, in thousandths.
TorchStreams == {0, 1}

TorchRand(stream, t) ==
    (IF stream = 0
     THEN <<496257, 768222, 88477, 132036, 307423, 634079, 490093, 896445>>
     ELSE <<757631, 279342, 403147, 734689, 29282, 799860, 397101, 754416>>
    )[(t % 8) + 1]

TorchRandn(stream, t) ==
    (IF stream = 0
     THEN <<1541, -293, -2179, 568, -1085, -1399, 403, 838>>
     ELSE <<661, 267, 62, 621, -452, -166, -1523, 382>>
    )[(t % 8) + 1]

\* nn.EmbeddingBag(size, v_dim) followed by
\* nn.init.normal_(weight, mean=0, std=v_dim ** -0.5)
InitValues(size, v_dim, stream) ==
    [r \in Range0(size) |-> [c \in Range0(v_dim) |->
        RoundDiv(TorchRandn(stream, r * v_dim + c) * Bound(v_dim), Unit)]]

\* The query projection is kept on a finer grid than the other tensors,
\* since BatchNorm1d divides by as little as sqrt(eps): its weight, its bias
\* and its output are integers n standing for n / (Unit * Fine).
Fine == 1000

\* a * u / 1000000 for a >= 0 and a draw u in [0, 1) given in millionths,
\* computed in parts of three digits
MulMillionths(a, u) ==
    (a \div 1000) * (u \div 1000)
    + RoundDiv((a \div 1000) * (u % 1000) + (a % 1000) * (u \div 1000)
               + RoundDiv((a % 1000) * (u % 1000), 1000), 1000)

\* low + (high - low) * u on the grid of the query projection
UniformFine(low, high, u) == low + MulMillionths(high - low, u)

\* nn.Linear(input_dim, features, bias=True): weight and bias uniform in
\* (-1 / sqrt(input_dim), 1 / sqrt(input_dim)), on the grid of the query
\* projection
InitLinear(input_dim, features, stream) ==
    [weight |-> [f \in Range0(features) |-> [i \in Range0(input_dim) |->
                   UniformFine(-Fine * Bound(input_dim), Fine * Bound(input_dim),
                               TorchRand(stream, f * input_dim + i))]],
     bias |-> [f \in Range0(features) |->
                 UniformFine(-Fine * Bound(input_dim), Fine * Bound(input_dim),
                             TorchRand(stream, features * input_dim + f))]]

\* nn.BatchNorm1d(features): running_mean 0, running_var 1 and no batch
\* tracked; no such layer without query_batchnorm
InitBatchNorm(features, query_batchnorm) ==
    IF query_batchnorm
    THEN [running_mean |-> [f \in Range0(features) |-> 0],
          running_var |-> [f \in Range0(features) |-> Unit],
          num_batches_tracked |-> 0]
    ELSE <<>>

\* a bug of the precondition: evenness is not asked for
KDimAtLeastTwo(k_dim) == k_dim >= 2

\* assert self.k_dim >= 2 and self.k_dim % 2 == 0
KDimValid(k_dim) == k_dim >= 2 /\ k_dim % 2 = 0

\* dropout probabilities, as <<numerator, denominator>>
NoDropout == <<0, 1>>

HalfDropout == <<1, 2>>

\* query_batchnorm and the three dropout probabilities (input, query and
\* value dropout) given to the constructor
LayerChoices ==
    {<<FALSE, NoDropout, NoDropout, NoDropout>>,
     <<FALSE, HalfDropout, HalfDropout, HalfDropout>>,
     <<TRUE, NoDropout, NoDropout, NoDropout>>}

\* the arguments given to the constructor; a module with query_batchnorm is
\* built with knn 2 (a selection) or 3 (more than n_keys: torch.topk raises)
ParamChoices ==
    { [input_dim |-> 1, output_dim |-> 2, k_dim |-> k_dim, n_keys |-> 2,
       heads |-> heads, knn |-> knn, query_batchnorm |-> layers[1],
       input_dropout |-> layers[2], query_dropout |-> layers[3],
       value_dropout |-> layers[4]] :
        k_dim \in {0, 1, 2, 3}, heads \in {1, 2},
        knn \in {1, 2, 3}, layers \in LayerChoices } \
    { [input_dim |-> 1, output_dim |-> 2, k_dim |-> k_dim, n_keys |-> 2,
       heads |-> heads, knn |-> 1, query_batchnorm |-> TRUE,
       input_dropout |-> NoDropout, query_dropout |-> NoDropout,
       value_dropout |-> NoDropout] :
        k_dim \in {0, 1, 2, 3}, heads \in {1, 2} }

\* the streams of torch's generator a module is built from: one for a module
\* with query_batchnorm
ConstructStreams(params) ==
    IF params.query_batchnorm THEN {0} ELSE TorchStreams

Init ==
    /\ phase = "new"
    /\ cfg = <<>>
    /\ keys = <<>>
    /\ values = <<>>
    /\ proj = <<>>
    /\ bn = <<>>
    /\ training = FALSE
    /\ call = NoCall

\* HashingMemory(input_dim, output_dim, params): the assertion on k_dim
\* fails before anything is built; a new nn.Module is in training mode
Construct ==
    /\ phase = "new"
    /\ \E params \in ParamChoices :
       \E stream \in ConstructStreams(params) :
         /\ cfg' = [input_dim |-> params.input_dim,
                    output_dim |-> params.output_dim,
                    k_dim |-> params.k_dim,
                    v_dim |-> params.output_dim,
                    n_keys |-> params.n_keys,
                    size |-> params.n_keys * params.n_keys,
                    heads |-> params.heads,
                    knn |-> params.knn,
                    input_dropout |-> params.input_dropout,
                    query_dropout |-> params.query_dropout,
                    value_dropout |-> params.value_dropout,
                    query_batchnorm |-> params.query_batchnorm]
         /\ IF ~KDimValid(params.k_dim)
            THEN /\ phase' = "failed"
                 /\ UNCHANGED <<keys, values, proj, bn, training>>
            ELSE /\ phase' = "ready"
                 /\ keys' = InitializeKeys(params.heads, params.n_keys, params.k_dim)
                 /\ values' = InitValues(params.n_keys * params.n_keys,
                                         params.output_dim, stream)
                 /\ proj' = InitLinear(params.input_dim,
                                       params.heads * params.k_dim, stream)
                 /\ bn' = InitBatchNorm(params.heads * params.k_dim,
                                        params.query_batchnorm)
                 /\ training' = TRUE
    /\ UNCHANGED call

(***************************************************************************)
(* forward: read from the memory.                                          *)
(***************************************************************************)
\* np.prod(prefix_shape): numpy returns the float 1.0 for an empty shape
\* and an integer otherwise
NpProd(shape) == [value |-> Product(shape), is_float |-> Len(shape) = 0]

\* F.dropout(x, p, training) draws: the generator zeroes position e of its
\* stream when the bit is TRUE; rng is one period of the bits
Dropped(rng, e) == rng[e % Size(rng)]

DropoutActive(p, train) == train /\ p[1] > 0

\* F.dropout on a matrix whose first entry is at `offset` of the stream: a
\* kept entry is scaled by 1 / (1 - p)
Dropout(x, p, train, rng, offset) ==
    IF ~DropoutActive(p, train) THEN x
    ELSE [b \in DOMAIN x |-> [i \in DOMAIN x[b] |->
            IF Dropped(rng, offset + b * Size(x[b]) + i) THEN 0
            ELSE RoundDiv(x[b][i] * p[2], p[2] - p[1])]]

\* input.contiguous().view(-1, input_dim)
ViewRows(data, input_dim) ==
    [b \in Range0(Size(data) \div input_dim) |->
        [i \in Range0(input_dim) |-> data[b * input_dim + i]]]

\* w * x / Unit for a weight w of the query projection and an entry x of
\* its input, computed in two parts
ScaleMul(w, x) == (w \div Unit) * x + RoundDiv((w % Unit) * x, Unit)

\* nn.Linear: x W^T + bias, row by row, on the grid of the query projection
LinearBias(x, lin) ==
    [b \in DOMAIN x |-> [f \in DOMAIN lin.bias |->
        SumTo([d \in DOMAIN x[b] |-> ScaleMul(lin.weight[f][d], x[b][d])],
              Size(x[b])) + lin.bias[f]]]

\* the output of the query projection rounded to the grid of the tensors
ToUnit(z) == [b \in DOMAIN z |-> [f \in DOMAIN z[b] |-> RoundDiv(z[b][f], Fine)]]

\* BatchNorm1d refuses a batch of one in training mode
BatchNormRaises(x, train) == train /\ Size(x) = 1

\* eps of BatchNorm1d, 1e-05, in units of 1 / Unit^2
Eps == 10

\* The deviations n * x - sum(x) of a feature are divided by a scale that
\* keeps the largest of them within MaxCentred, so that their squares can be
\* summed whether the batch is spread over units or over millionths.
MaxCentred == 16000

Scales == {1, 2, 5, 10, 20, 50, 100, 200, 500, 1000}

\* the smallest scale that keeps a deviation of size dev within MaxCentred
ScaleOf(dev) ==
    CHOOSE g \in Scales :
        /\ dev <= MaxCentred * g
        /\ \A h \in Scales : dev <= MaxCentred * h => g <= h

\* n * x[b][f] - sum over the batch of x[.][f]: n times the deviation of
\* row b from the mean of feature f
Centred(x, f, b, total) == Size(x) * x[b][f] - total

\* per feature, for a batch x on the grid of the query projection: the
\* sum, the scale of the deviations, n^2 times the biased variance in
\* units of (scale / (Unit * Fine))^2, and on the grid of the tensors the
\* mean and the unbiased variance (not computed for a batch of one)
BatchStats(x, features) ==
    [f \in Range0(features) |->
        CHOOSE st \in UNION { UNION { UNION {
            { [sum |-> total, scale |-> g,
               var |-> RoundDiv(q, n),
               mean |-> RoundDiv(total, n * Fine),
               unbiased |-> IF n = 1 THEN 0
                            ELSE RoundDiv(RoundDiv(q, (Fine \div g) * (Fine \div g)),
                                          n * n * (n - 1) * Unit)] :
                q \in {SumTo([b \in DOMAIN x |->
                                RoundDiv(Centred(x, f, b, total), g)
                                * RoundDiv(Centred(x, f, b, total), g)], n)} } :
                g \in {ScaleOf(IthLargest([b \in DOMAIN x |->
                                  IF Centred(x, f, b, total) < 0
                                  THEN -Centred(x, f, b, total)
                                  ELSE Centred(x, f, b, total)], 1))} } :
                total \in {SumTo([b \in DOMAIN x |-> x[b][f]], n)} } :
                n \in {Size(x)} } : TRUE]

\* a bug of the layer: the running statistics follow every batch
BatchNormTracksAlways(train) == TRUE

\* the running statistics are updated in training mode only
BatchNormTracks(train) == train

\* BatchNorm1d.forward counts the batch before anything else, and so
\* before the batch of one is refused
BatchNormCount(state, train) ==
    IF ~BatchNormTracks(train) THEN state
    ELSE [state EXCEPT !.num_batches_tracked = @ + 1]

\* the layer's buffers after a batch with statistics st: momentum 0.1
BatchNormUpdate(state, st, train) ==
    IF ~BatchNormTracks(train) THEN state
    ELSE [running_mean |-> [f \in DOMAIN st |->
             RoundDiv(9 * state.running_mean[f] + st[f].mean, 10)],
          running_var |-> [f \in DOMAIN st |->
             RoundDiv(9 * state.running_var[f] + st[f].unbiased, 10)],
          num_batches_tracked |->
             BatchNormCount(state, train).num_batches_tracked]

\* the layer's output (weight 1, bias 0), on the grid of the tensors, for a
\* batch x on the grid of the query projection with statistics st:
\* (x - mean) / sqrt(var + eps), with the statistics of the batch in
\* training mode (numerator and denominator both times n, in units of the
\* scale of the deviations) and the running statistics in evaluation mode
BatchNormOutput(state, x, st, train) ==
    IF train
    THEN [b \in DOMAIN x |-> [f \in DOMAIN st |->
            RoundDiv(Unit * RoundDiv(Centred(x, f, b, st[f].sum), st[f].scale),
                     SqrtRound(st[f].var
                               + Size(x) * Size(x) * Eps
                                 * (Fine \div st[f].scale)
                                 * (Fine \div st[f].scale)))]]
    ELSE [b \in DOMAIN x |-> [f \in DOMAIN st |->
            RoundDiv(x[b][f] - Fine * state.running_mean[f],
                     SqrtRound(Unit * state.running_var[f] + Eps))]]

\* query.view(bs * heads, k_dim): row b * heads + h holds features
\* h * k_dim .. (h + 1) * k_dim - 1 of row b
ViewHeads(q, heads, k_dim) ==
    [r \in Range0(Size(q) * heads) |->
        [d \in Range0(k_dim) |-> q[r \div heads][(r % heads) * k_dim + d]]]

\* the series of exp(-f / Unit) from its n-th term on, in Horner's form:
\* 1 - (f / n) * (1 - (f / (n + 1)) * (...)), in millionths, 0 <= f < Unit
RECURSIVE ExpSeries(_, _)
ExpSeries(f, n) ==
    IF n > 10 THEN 1000000
    ELSE 1000000 - (f * ExpSeries(f, n + 1)) \div (Unit * n)

\* exp(-f / Unit) in millionths, 0 <= f < Unit
ExpFraction(f) == ExpSeries(f, 1)

\* exp(-k) in millionths, k >= 0 an integer
ExpInteger(k) ==
    IF k > 14 THEN 0
    ELSE <<1000000, 367879, 135335, 49787, 18316, 6738, 2479, 912, 335, 123,
           45, 17, 6, 2, 1>>[k + 1]

\* exp(-d / Unit) in units of 1 / WeightUnit, d >= 0
Exp(d) ==
    RoundDiv((ExpFraction(d % Unit) \div 100) * (ExpInteger(d \div Unit) \div 10),
             100000)

\* e / sum(e), entry by entry
Normalise(e) ==
    [i \in DOMAIN e |-> RoundDiv(e[i] * WeightUnit, SumTo(e, Size(e)))]

\* F.softmax(scores, dim=-1): each row normalised on its own
Softmax(t) ==
    [r \in DOMAIN t |->
        CHOOSE w \in { Normalise(e) :
                         e \in {[i \in DOMAIN t[r] |->
                                   Exp(IthLargest(t[r], 1) - t[r][i])]} } : TRUE]

\* t.view(bs, heads * knn) of a (bs * heads, knn) tensor
ViewMerged(t, heads, knn) ==
    [b \in Range0(Size(t) \div heads) |->
        [p \in Range0(heads * knn) |-> t[b * heads + p \div knn][p % knn]]]

\* a bug of the order: heads are merged before the softmax
WeightsAcrossHeads(scores, heads, knn) ==
    Softmax(ViewMerged(scores, heads, knn))

\* scores = F.softmax(scores, dim=-1); scores.view(bs, heads * knn)
Weights(scores, heads, knn) == ViewMerged(Softmax(scores), heads, knn)

\* the sum over the first n positions of a bag of weight * entry c of the
\* row, in units of 1 / (WeightUnit * Unit)
RECURSIVE BagSum(_, _, _, _, _)
BagSum(table, idx, w, c, n) ==
    IF n = 0 THEN 0
    ELSE BagSum(table, idx, w, c, n - 1) + w[n - 1] * table[idx[n - 1]][c]

\* a bug of the bag: a row selected several times is written once, with
\* the weight of its last occurrence
EmbeddingBagOverwrite(table, indices, weights, v_dim) ==
    [b \in DOMAIN indices |-> [c \in Range0(v_dim) |->
        RoundDiv(BagSum(table, indices[b],
                        [p \in DOMAIN indices[b] |->
                           IF \E p2 \in DOMAIN indices[b] :
                                p2 > p /\ indices[b][p2] = indices[b][p]
                           THEN 0 ELSE weights[b][p]],
                        c, Size(indices[b])),
                 WeightUnit)]]

\* nn.EmbeddingBag(mode='sum') with per_sample_weights: for each bag the
\* sum over its positions of weight * row
EmbeddingBag(table, indices, weights, v_dim) ==
    [b \in DOMAIN indices |-> [c \in Range0(v_dim) |->
        RoundDiv(BagSum(table, indices[b], weights[b], c, Size(indices[b])),
                 WeightUnit)]]

\* the shape of what forward returns: the view to prefix_shape + (v_dim,)
\* is taken for two leading dimensions or more
OutputShape(prefix_shape, rows, v_dim) ==
    IF Len(prefix_shape) >= 2 THEN Append(prefix_shape, v_dim)
    ELSE <<rows, v_dim>>

\* the positions of the generator's stream a dropout stage uses
StreamUsed(p, train, n) == IF DropoutActive(p, train) THEN n ELSE 0

\* what the caller sees of a read, with the values forward computed on the way
CallRecord(m, x, rng, status, error, query, topk, rows, indices, weights, shape, output) ==
    [op |-> "forward", input |-> x, rng |-> rng,
     mode |-> m.training, status |-> status, error |-> error,
     query |-> query, topk |-> topk, rows |-> rows, indices |-> indices,
     weights |-> weights, output_shape |-> shape, output |-> output]

Raised(m, x, rng, error, state) ==
    [call |-> CallRecord(m, x, rng, "raised", error,
                         <<>>, <<>>, <<>>, <<>>, <<>>, <<>>, <<>>),
     bn |-> state]

\* forward from the weighted sum on: lines "weighted sum of values" and
\* "reshape output".  Here and below each local of forward is bound once,
\* in the order the code assigns it.
ForwardRead(m, x, rng, state, offset, query, topk, rows, indices, weights) ==
    UNION { { [call |-> CallRecord(m, x, rng, "ok", "", query, topk, rows,
                           indices, weights,
                           OutputShape(SubSeq(x.shape, 1, Len(x.shape) - 1),
                                       Size(indices), m.cfg.v_dim),
                           dropped),
               bn |-> state] :
                dropped \in {Dropout(output, m.cfg.value_dropout, m.training,
                                     rng, offset)} } :
              output \in {EmbeddingBag(m.values, indices, weights, m.cfg.v_dim)} }

\* forward from "retrieve indices and scores" on, when torch.topk is the
\* function topk
ForwardSelect(m, x, rng, state, offset, query, topk) ==
    UNION { UNION {
             ForwardRead(m, x, rng, state, offset, query, topk, rows, indices,
                         weights) :
               indices \in {ViewMerged([r \in DOMAIN rows |-> rows[r].indices],
                                       m.cfg.heads, m.cfg.knn)},
               weights \in {Weights([r \in DOMAIN rows |-> rows[r].scores],
                                    m.cfg.heads, m.cfg.knn)} } :
               rows \in {GetIndices(query, m.keys, m.cfg.heads, m.cfg.knn,
                                    m.cfg.k_dim, topk)} }

\* the query is computed: forward has neither returned nor raised yet
QueryComputed(state, offset, query) ==
    [call |-> NoCall, bn |-> state, offset |-> offset, query |-> query]

\* forward from query.view(bs * heads, k_dim) to the query: bs is
\* np.prod(prefix_shape), and view takes integers only
ForwardView(m, x, rng, state, offset, projected) ==
    IF NpProd(SubSeq(x.shape, 1, Len(x.shape) - 1)).is_float
    THEN {Raised(m, x, rng, "TypeError", state)}
    ELSE UNION { UNION {
             { QueryComputed(state,
                   offset + StreamUsed(m.cfg.query_dropout, m.training,
                                       Size(query) * m.cfg.k_dim),
                   query) } :
               query \in {Dropout(viewed, m.cfg.query_dropout, m.training,
                                  rng, offset)} } :
               viewed \in {ViewHeads(projected, m.cfg.heads, m.cfg.k_dim)} }

\* forward from self.query_proj to the query: nn.Linear, then BatchNorm1d
\* if any
ForwardProject(m, x, rng, offset, rows) ==
    IF ~m.cfg.query_batchnorm
    THEN UNION { ForwardView(m, x, rng, m.bn, offset, ToUnit(z)) :
                   z \in {LinearBias(rows, m.proj)} }
    ELSE IF BatchNormRaises(rows, m.training)
    THEN {Raised(m, x, rng, "ValueError", BatchNormCount(m.bn, m.training))}
    ELSE UNION { UNION { UNION {
             ForwardView(m, x, rng, state, offset, normed) :
               state \in {BatchNormUpdate(m.bn, st, m.training)},
               normed \in {BatchNormOutput(m.bn, z, st, m.training)} } :
               st \in {BatchStats(z, m.cfg.heads * m.cfg.k_dim)} } :
               z \in {LinearBias(rows, m.proj)} }

\* forward(input) down to "compute query": the query (QueryComputed) or
\* what forward raises before, and the buffers of the BatchNorm layer
ForwardQuery(m, x, rng) ==
    IF x.shape[Len(x.shape)] # m.cfg.input_dim
    THEN {Raised(m, x, rng, "AssertionError", m.bn)}
    ELSE UNION { UNION {
             ForwardProject(m, x, rng,
                 StreamUsed(m.cfg.input_dropout, m.training, Size(x.data)),
                 rows) :
               rows \in {Dropout(viewed, m.cfg.input_dropout, m.training,
                                 rng, 0)} } :
               viewed \in {ViewRows(x.data, m.cfg.input_dim)} }

\* forward(input) after the step q of ForwardQuery, when torch.topk is one
\* of the functions `kernels`
ForwardFrom(m, x, rng, q, kernels) ==
    IF q.call # NoCall THEN {q}
    ELSE IF GetIndicesRaises(m.keys[0], m.cfg.knn)
    THEN {Raised(m, x, rng, "RuntimeError", q.bn)}
    ELSE UNION { ForwardSelect(m, x, rng, q.bn, q.offset, q.query, topk) :
                   topk \in kernels }

\* forward(input): what it returns or raises, and the buffers of the
\* BatchNorm layer afterwards, for each function torch.topk may be on the
\* rows of this read
ForwardResults(m, x, rng) ==
    UNION { ForwardFrom(m, x, rng, q,
                TopKKernels(GetIndicesTopKInputs(q.query, m.keys, m.cfg.heads,
                                                 m.cfg.knn, m.cfg.k_dim),
                            m.cfg.knn)) :
              q \in ForwardQuery(m, x, rng) }

(***************************************************************************)
(* The life of a module: construction, reads, train() and eval().          *)
(***************************************************************************)
\* cap on the batches the BatchNorm layer tracks
MaxTracked == 2

\* largest number of rows in an input (the product of its leading dimensions)
MaxBs == 2

\* entries of an input
InputVals == {-Unit, 2 * Unit}

\* the leading dimensions of an input: none, one or two
PrefixShapes ==
    {<<>>} \cup {<<a>> : a \in 1 .. MaxBs}
           \cup {<<a, b>> : a \in 1 .. MaxBs, b \in 1 .. MaxBs}

\* the inputs of last dimension input_dim, and inputs of another last
\* dimension
Inputs(input_dim) ==
    UNION { {[shape |-> Append(pre, input_dim), data |-> d] :
               d \in [Range0(Product(pre) * input_dim) -> InputVals]}
            \cup {[shape |-> Append(pre, input_dim + 1),
                   data |-> [e \in Range0(Product(pre) * (input_dim + 1)) |-> 0]]}
            : pre \in {q \in PrefixShapes : Product(q) <= MaxBs} }

\* one period of the bits the generator draws for dropout
RngStreams ==
    {Seq0(<<FALSE>>), Seq0(<<TRUE>>), Seq0(<<TRUE, FALSE>>), Seq0(<<FALSE, TRUE>>)}

Module ==
    [cfg |-> cfg, keys |-> keys, values |-> values, proj |-> proj, bn |-> bn,
     training |-> training]

AnyDropout ==
    \/ DropoutActive(cfg.input_dropout, training)
    \/ DropoutActive(cfg.query_dropout, training)
    \/ DropoutActive(cfg.value_dropout, training)

\* memory(x)
Forward ==
    /\ phase = "ready"
    /\ call = NoCall
    /\ (cfg.query_batchnorm /\ training) => bn.num_batches_tracked < MaxTracked
    /\ \E x \in Inputs(cfg.input_dim),
          rng \in IF AnyDropout THEN RngStreams ELSE {Seq0(<<FALSE>>)} :
         \E res \in ForwardResults(Module, x, rng) :
            /\ call' = res.call
            /\ bn' = res.bn
    /\ UNCHANGED <<phase, cfg, keys, values, proj, training>>

\* memory.train()
Train ==
    /\ phase = "ready"
    /\ call = NoCall
    /\ ~training
    /\ training' = TRUE
    /\ UNCHANGED <<phase, cfg, keys, values, proj, bn, call>>

\* memory.eval()
Eval ==
    /\ phase = "ready"
    /\ call = NoCall
    /\ training
    /\ training' = FALSE
    /\ UNCHANGED <<phase, cfg, keys, values, proj, bn, call>>

\* the caller takes what the read returned or raised
Return ==
    /\ phase = "ready"
    /\ call # NoCall
    /\ call' = NoCall
    /\ UNCHANGED <<phase, cfg, keys, values, proj, bn, training>>

Next == Construct \/ Forward \/ Return \/ Train \/ Eval

Spec == Init /\ [][Next]_vars

(***************************************************************************)
(* The selector on its own: its arguments are drawn by InitSel and         *)
(* SelCall applies it.                                                     *)
(***************************************************************************)
\* knn given to the selector on its own (2 > n_keys = 1 is the invalid case)
KnnChoices == {1, 2}
\* entries of the sub-key vectors, and the query rows, given to the selector
KeyVals == {0, Unit, 2 * Unit}
QueryRows == {Seq0(<<Unit, Unit>>), Seq0(<<Unit, -Unit>>)}

SubKeySets(n_keys, half) == [Range0(n_keys) -> [Range0(half) -> KeyVals]]

InitSel ==
    /\ phase = "selector"
    /\ \E n \in 1 .. MaxNKeys, k \in KnnChoices :
         /\ cfg = [k_dim |-> 2, n_keys |-> n, heads |-> 1, knn |-> k]
         /\ keys \in [{0} -> [{0, 1} -> SubKeySets(n, 1)]]
    /\ values = <<>>
    /\ proj = <<>>
    /\ bn = <<>>
    /\ training = FALSE
    /\ call \in {[op |-> "args", query |-> q] : q \in [{0} -> QueryRows]}

SelCall ==
    /\ phase = "selector"
    /\ call.op = "args"
    /\ \/ /\ GetIndicesRaises(keys[0], cfg.knn)
          /\ call' = [op |-> "_get_indices", query |-> call.query,
                      status |-> "raised", rows |-> <<>>]
       \/ /\ ~GetIndicesRaises(keys[0], cfg.knn)
          /\ \E topk \in TopKKernels(
                          GetIndicesTopKInputs(call.query, keys, 1, cfg.knn,
                                               cfg.k_dim), cfg.knn) :
               call' = [op |-> "_get_indices", query |-> call.query,
                        status |-> "ok",
                        rows |-> GetIndicesBatch(call.query, keys[0], cfg.knn,
                                                 cfg.k_dim, topk)]
    /\ UNCHANGED <<phase, cfg, keys, values, proj, bn, training>>

NextSel == SelCall

SpecSel == InitSel /\ [][NextSel]_vars


(***************************************************************************)
(* Properties of the selector.  A value used several times is bound by a   *)
(* quantifier over a singleton, so that it is computed once.               *)
(***************************************************************************)
\* the k largest entries of v, in descending order
LargestK(v, k) == [i \in Range0(k) |-> IthLargest(v, i + 1)]

\* the score of every row of the value table: row r is the pair
\* (r // n_keys, r % n_keys)
FullTable(s1, s2, n_keys) ==
    [r \in Range0(n_keys * n_keys) |-> s1[r \div n_keys] + s2[r % n_keys]]

SelDone ==
    phase = "selector" /\ call.op = "_get_indices" /\ call.status = "ok"

\* C1: the knn scores the selector returns are in descending order and are
\* the knn largest of the knn x knn sums scores1[i] + scores2[j] formed from
\* the knn largest entries of scores1 and the knn largest entries of scores2.
C1_TopOfCandidates ==
    SelDone =>
      \A b \in DOMAIN call.rows :
        \A r \in {call.rows[b]}, knn \in {cfg.knn} :
        \A h1 \in {LargestK(r.full1, knn)}, h2 \in {LargestK(r.full2, knn)} :
        \A cand \in {[p \in Range0(knn * knn) |-> h1[p \div knn] + h2[p % knn]]} :
            /\ DOMAIN r.scores = Range0(knn)
            /\ \A i, j \in Range0(knn) : i < j => r.scores[i] >= r.scores[j]
            /\ r.scores = LargestK(cand, knn)

\* the selector returned two different scores from three sub-keys per half
C1_Witness ==
    /\ SelDone
    /\ cfg.knn = 2 /\ cfg.n_keys = 3
    /\ \E b \in DOMAIN call.rows :
         /\ call.rows[b].scores[0] > call.rows[b].scores[1]
         /\ call.rows[b].scores[1] > call.rows[b].full1[0] + call.rows[b].full2[0]

\* C2: when some true top-knn of the full n_keys^2 table has both components
\* of each of its pairs among the per-half candidates, the returned scores
\* are the true top-knn scores and the returned indices are knn distinct
\* rows of the full table carrying exactly those scores (the true top-knn
\* rows, up to the choice among equal scores).
C2_MatchesTrueTop ==
    SelDone =>
      \A b \in DOMAIN call.rows :
        \A r \in {call.rows[b]}, knn \in {cfg.knn}, n \in {cfg.n_keys} :
        \A full \in {FullTable(r.full1, r.full2, n)} :
        \A top \in {LargestK(full, knn)} :
        \A above \in {{x \in DOMAIN full : full[x] > top[knn - 1]}},
           atThr \in {{x \in DOMAIN full : full[x] = top[knn - 1]}},
           cands \in {{i * n + j : i \in r.indices1,
                                   j \in r.indices2}} :
          ( /\ above \subseteq cands
            /\ Cardinality(cands \cap atThr) >= knn - Cardinality(above) )
          =>
              /\ r.scores = top
              /\ \A i \in Range0(knn) :
                   /\ r.indices[i] \in DOMAIN full
                   /\ full[r.indices[i]] = r.scores[i]
              /\ Cardinality(RangeOf(r.indices)) = knn
              /\ above \subseteq RangeOf(r.indices)
              /\ RangeOf(r.indices) \subseteq above \cup atThr

\* the true top-2 of a 3 x 3 table is unique and was returned
C2_Witness ==
    /\ SelDone
    /\ cfg.knn = 2 /\ cfg.n_keys = 3
    /\ \E b \in DOMAIN call.rows :
         \E r \in {call.rows[b]} :
         \E full \in {FullTable(r.full1, r.full2, 3)} :
         \E best \in {{x \in DOMAIN full : full[x] >= IthLargest(full, 2)}} :
             /\ Cardinality(best) = 2
             /\ RangeOf(r.indices) = best
             /\ r.indices[0] # 0 /\ r.indices[1] # 0

\* C3: every returned index is a row of the value table and decodes to the
\* pair it was built from: index // n_keys is one of the top-knn indices of
\* the first half, index % n_keys one of the second half, and the returned
\* score is scores1[index // n_keys] + scores2[index % n_keys].
C3_IndexDecodes ==
    SelDone =>
      \A b \in DOMAIN call.rows :
        \A r \in {call.rows[b]}, knn \in {cfg.knn}, n \in {cfg.n_keys} :
        \A t1 \in {IthLargest(r.full1, knn)}, t2 \in {IthLargest(r.full2, knn)} :
            /\ DOMAIN r.indices = Range0(knn)
            /\ \A h \in r.indices1 : r.full1[h] >= t1
            /\ \A h \in r.indices2 : r.full2[h] >= t2
            /\ Cardinality(r.indices1) = knn
            /\ Cardinality(r.indices2) = knn
            /\ \A i \in Range0(knn) :
                 /\ r.indices[i] \in Range0(n * n)
                 /\ (r.indices[i] \div n) \in r.indices1
                 /\ (r.indices[i] % n) \in r.indices2
                 /\ r.scores[i] = r.full1[r.indices[i] \div n]
                                    + r.full2[r.indices[i] % n]

\* a returned index whose two components differ and are not 0
C3_Witness ==
    /\ SelDone
    /\ cfg.n_keys = 3
    /\ \E b \in DOMAIN call.rows : \E i \in DOMAIN call.rows[b].indices :
         \E x \in {call.rows[b].indices[i]} : x \div 3 = 2 /\ x % 3 = 1

\* C9: with ties or without, the multiset of the knn returned scores is the
\* multiset of the knn largest of all n_keys^2 sums scores1[i] + scores2[j].
C9_ExactOverFullTable ==
    SelDone =>
      \A b \in DOMAIN call.rows :
        \A r \in {call.rows[b]} :
        \A full \in {FullTable(r.full1, r.full2, cfg.n_keys)} :
            LargestK(r.scores, cfg.knn) = LargestK(full, cfg.knn)

\* knn < n_keys, equal scores within a half, and a pair outside the
\* candidates that scores as much as the last returned one
C9_Witness ==
    /\ SelDone
    /\ cfg.knn = 2 /\ cfg.n_keys = 3
    /\ \E b \in DOMAIN call.rows :
         \E r \in {call.rows[b]} :
         \E full \in {FullTable(r.full1, r.full2, 3)} :
             /\ \E i, j \in Range0(3) : i # j /\ r.full1[i] = r.full1[j]
             /\ \E x \in DOMAIN full :
                  /\ (x \div 3) \notin r.indices1
                  /\ full[x] = r.scores[1]

(***************************************************************************)
(* Properties of the module: construction and reads.                       *)
(***************************************************************************)
ReadDone == call.op = "forward" /\ call.status = "ok"

PrefixOf(x) == SubSeq(x.shape, 1, Len(x.shape) - 1)

\* C4: a read of an input whose last dimension is input_dim, with any
\* number of leading dimensions (none included), completes and returns an
\* output of the same leading dimensions and of last dimension output_dim.
\* Stated for the configurations that pass the checks on k_dim and knn, and
\* for batches the BatchNorm layer accepts.
C4_ShapePreserved ==
    (/\ call.op = "forward"
     /\ call.input.shape[Len(call.input.shape)] = cfg.input_dim
     /\ cfg.knn <= cfg.n_keys
     /\ ~(cfg.query_batchnorm /\ call.mode /\ Product(PrefixOf(call.input)) = 1))
    => /\ call.status = "ok"
       /\ call.output_shape = Append(PrefixOf(call.input), cfg.output_dim)

\* the weight a bag gives to row r: the sum of the weights of the positions
\* that selected r
RECURSIVE RowWeight(_, _, _, _)
RowWeight(idx, w, r, n) ==
    IF n = 0 THEN 0
    ELSE IF idx[n - 1] = r
         THEN RowWeight(idx, w, r, n - 1) + w[n - 1]
         ELSE RowWeight(idx, w, r, n - 1)

\* the sum over the rows 0 .. n - 1 of the table of (weight of the row) *
\* (entry c of the row)
RECURSIVE SumOverRows(_, _, _, _)
SumOverRows(idx, w, c, n) ==
    IF n = 0 THEN 0
    ELSE SumOverRows(idx, w, c, n - 1)
           + RowWeight(idx, w, n - 1, Size(idx)) * values[n - 1][c]

\* C5: with value dropout inactive, the output for each batch element is the
\* sum over the heads * knn positions of weight * row of the value table
\* (rounded once, to the grid of the output); a row selected at several
\* positions contributes once per position.
C5_RowSum ==
    (ReadDone /\ ~DropoutActive(cfg.value_dropout, call.mode)) =>
        \A b \in DOMAIN call.output : \A c \in Range0(cfg.output_dim) :
            call.output[b][c] =
                RoundDiv(SumOverRows(call.indices[b], call.weights[b], c,
                                     cfg.size), WeightUnit)

C5_Witness ==
    /\ ReadDone
    /\ ~DropoutActive(cfg.value_dropout, call.mode)
    /\ \E b \in DOMAIN call.indices : \E p1, p2 \in DOMAIN call.indices[b] :
          /\ p1 \div cfg.knn # p2 \div cfg.knn
          /\ call.indices[b][p1] = call.indices[b][p2]
          /\ call.output[b] #
               [c \in Range0(cfg.output_dim) |->
                  RoundDiv(BagSum(values, call.indices[b],
                                  [p \in DOMAIN call.indices[b] |->
                                     IF p = p1 THEN 0 ELSE call.weights[b][p]],
                                  c, Size(call.indices[b])), WeightUnit)]

\* C6: the weights are normalised within each (batch element, head) group
\* of knn scores: the knn weights of a head are non-negative and sum to 1
\* (to the rounding of each weight, half of 1 / WeightUnit), and the weight
\* at position h * knn + i of batch element b is the softmax, over head h's
\* scores for b, of its i-th score.
C6_NormalisedPerHead ==
    ReadDone =>
        \A b \in DOMAIN call.weights : \A h \in Range0(cfg.heads) :
            \A sc \in {call.rows[b * cfg.heads + h].scores} :
            \A e \in {[i \in Range0(cfg.knn) |-> Exp(sc[0] - sc[i])]} :
            \A sum \in {SumTo([i \in Range0(cfg.knn) |->
                           call.weights[b][h * cfg.knn + i]], cfg.knn)} :
               /\ \A i \in Range0(cfg.knn) :
                     /\ call.weights[b][h * cfg.knn + i] >= 0
                     /\ call.weights[b][h * cfg.knn + i] =
                            RoundDiv(e[i] * WeightUnit, SumTo(e, cfg.knn))
               /\ 2 * (sum - WeightUnit) <= cfg.knn
               /\ 2 * (WeightUnit - sum) <= cfg.knn

C6_Witness ==
    /\ ReadDone
    /\ cfg.heads = 2
    /\ cfg.knn = 2
    /\ \E b \in DOMAIN call.weights :
          /\ call.weights[b][0] # call.weights[b][1]
          /\ call.weights[b][0] # call.weights[b][2]

\* C7: a module configured with k_dim odd or below 2 fails at construction,
\* one configured with knn > n_keys raises at every read, and no read under
\* such a configuration completes with an output.
C7_InvalidFailsFast ==
    phase # "new" =>
        /\ (cfg.k_dim < 2 \/ cfg.k_dim % 2 = 1) =>
               (phase = "failed" /\ call = NoCall)
        /\ (cfg.knn > cfg.n_keys /\ call.op = "forward") =>
               (call.status = "raised" /\ call.output = <<>>)

C7_Witness ==
    /\ phase = "ready"
    /\ cfg.knn > cfg.n_keys
    /\ call.op = "forward"
    /\ call.error = "RuntimeError"

\* the module as constructed: its parameters, and the buffers of the
\* BatchNorm layer before any read
AsConstructed ==
    [Module EXCEPT !.bn = InitBatchNorm(cfg.heads * cfg.k_dim,
                                        cfg.query_batchnorm)]

ReadStep == phase = "ready" /\ call = NoCall /\ call'.op = "forward"

\* of the functions torch.topk may be on `inputs` (TopKKernels), the one it
\* was on the read just made, if it is one of them
SameKernel(inputs, k) ==
    IF /\ DOMAIN call.topk = inputs
       /\ \A v \in inputs : call.topk[v] \in TopK(v, k)
    THEN {call.topk} ELSE {}

\* what the read just made returned or raised is what the module as
\* constructed returns or raises for the same input and dropout mask (and,
\* torch.topk being one function, the same orders of equal values)
AsFirstRead ==
    \E m \in {AsConstructed}, x \in {call.input}, rng \in {call.rng} :
        \E q \in ForwardQuery(m, x, rng) :
            \E res \in ForwardFrom(m, x, rng, q,
                           SameKernel(GetIndicesTopKInputs(q.query, m.keys,
                                          m.cfg.heads, m.cfg.knn, m.cfg.k_dim),
                                      m.cfg.knn)) :
                res.call = call

\* C8 as the specification states it: no read modifies any state of the
\* module, and what a read returns is what the module as constructed
\* returns for the same input and dropout mask.
C8_ReadKeepsNoState ==
    /\ [][ReadStep => UNCHANGED <<cfg, keys, values, proj, bn, training>>]_vars
    /\ [](call.op = "forward" => AsFirstRead)

\* C8: a read modifies no state of the module other than the buffers of
\* the query BatchNorm layer, which every read in training mode that
\* reaches the layer updates (a batch of one row is counted and then
\* refused, its statistics not taken); what a read returns does not depend
\* on earlier reads, except in evaluation mode with query_batchnorm.
C8_OnlyBatchNormState ==
    /\ [][ReadStep =>
            /\ UNCHANGED <<cfg, keys, values, proj, training>>
            /\ ~(cfg.query_batchnorm /\ training) => bn' = bn
            /\ (cfg.query_batchnorm /\ training) =>
                  IF call'.error = "AssertionError" THEN bn' = bn
                  ELSE /\ bn'.num_batches_tracked = bn.num_batches_tracked + 1
                       /\ call'.error = "ValueError" =>
                             /\ bn'.running_mean = bn.running_mean
                             /\ bn'.running_var = bn.running_var
        ]_vars
    /\ []((call.op = "forward" /\ (~cfg.query_batchnorm \/ call.mode))
            => AsFirstRead)

\* the buffers the read just made leaves in the module as constructed,
\* where that module returns what the read returned
FirstReadBuffers ==
    UNION { UNION { { res.bn : res \in
                        { r \in ForwardFrom(AsConstructed, call.input,
                                    call.rng, q,
                                    SameKernel(GetIndicesTopKInputs(q.query,
                                                   keys, cfg.heads, cfg.knn,
                                                   cfg.k_dim), cfg.knn)) :
                            r.call = call } } } :
            q \in ForwardQuery(AsConstructed, call.input, call.rng) }

\* a second read in training mode with query_batchnorm, made after a read
\* that changed the running statistics: it is counted, it returns what the
\* module as constructed returns, and it leaves other running statistics
\* than it leaves in the module as constructed
C8_Witness ==
    /\ ReadDone
    /\ cfg.query_batchnorm
    /\ call.mode
    /\ bn.num_batches_tracked = 2
    /\ AsFirstRead
    /\ \A first \in FirstReadBuffers :
          /\ first.num_batches_tracked = 1
          /\ first.running_mean # bn.running_mean

\* a read in evaluation mode, after a read in training mode, that returns
\* what the module as constructed does not return
C8_EvalReadDepends ==
    /\ ReadDone
    /\ cfg.query_batchnorm
    /\ ~call.mode
    /\ bn.num_batches_tracked > 0
    /\ ~AsFirstRead

\* what the selector may return for one row of the query against one pair
\* of sub-key sets
SelectorResults(q, subkeys, knn, k_dim) ==
    { GetIndicesRow(q, subkeys, knn, k_dim, topk) :
        topk \in TopKKernels(TopKInputs(q, subkeys, knn, k_dim), knn) }

\* C10: row b * heads + h of what get_indices returns is the selector's
\* result for query row b * heads + h against the sub-keys of head h.
C10_HeadsSeparate ==
    ReadDone =>
        \A r \in DOMAIN call.query :
            call.rows[r] \in SelectorResults(call.query[r],
                                 keys[r % cfg.heads], cfg.knn, cfg.k_dim)

C10_Witness ==
    /\ ReadDone
    /\ cfg.heads = 2
    /\ Size(call.query) = 4
    /\ call.query[1] # call.query[2]
    /\ call.rows[1] # call.rows[2]
    /\ keys[0] # keys[1]

=============================================================================
